---- MODULE Spec2Model ----
(***************************************************************************)
(* Flight scheduling conflict detection of the charter-flight dashboard:   *)
(* the pure engine functions of utils/flight-utils, the flights table      *)
(* behind FlightService, and the Dashboard booking workflow that uses      *)
(* them.                                                                   *)
(***************************************************************************)
EXTENDS Integers, Sequences, FiniteSets, TLC

\* ---------------------------------------------------------------- bounds
\* Timestamps handed to the engine functions are whole hours 0..MaxTime.
MaxTime == 3
\* The clock and the add-flight form run over the hours 0..MaxHour.
MaxHour == 2
\* Longest flight list handed to an engine function in SpecEngine.
MaxLen == 2
\* Most rows the flights table holds in the booking specifications.
MaxFlights == 2
\* Longest flight list handed to findConflictingFlights in SpecGroups.
MaxGroupLen == 3

\* ---------------------------------------------------------------- domains
Aircraft == {"a1", "a2"}
Pilots == {"p1", "p2"}
Dispatchers == {"d1", "d2"}
Statuses == {"scheduled", "in_progress", "completed", "cancelled"}
Times == 0..MaxTime
Null == "null"

\* new Date(isoString): the instant, in epoch milliseconds, of a timestamp
\* string (here: a whole hour).
NewDate(s) == s * 3600000

\* The well-formed windows: departure_time < arrival_time.
Windows == {w \in Times \X Times : w[1] < w[2]}

\* A row of the flights table / an element of a Flight[] list.
MkFlight(id, a, dep, arr, st) ==
  [id |-> id, aircraft_id |-> a, departure_time |-> dep, arrival_time |-> arr,
   status |-> st]

\* A NewFlight as the add-flight form submits it.
MkNewFlight(a, dep, arr) ==
  [aircraft_id |-> a, departure_time |-> dep, arrival_time |-> arr]

\* ---------------------------------------------------------------- engine
\* Variant of checkFlightConflict without the status filter.
checkFlightConflict_AnyStatus(newFlight, existingFlights) ==
  LET sameAircraft(flight) == flight.aircraft_id = newFlight.aircraft_id
      aircraftFlights == SelectSeq(existingFlights, sameAircraft)
      newStart == NewDate(newFlight.departure_time)
      newEnd == NewDate(newFlight.arrival_time)
  IN \E i \in 1..Len(aircraftFlights) :
       LET existingStart == NewDate(aircraftFlights[i].departure_time)
           existingEnd == NewDate(aircraftFlights[i].arrival_time)
       IN newStart < existingEnd /\ newEnd > existingStart

\* Variant of checkFlightConflict with a closed bound (<=) on the start side.
checkFlightConflict_Closed(newFlight, existingFlights) ==
  LET isCandidate(flight) ==
        flight.aircraft_id = newFlight.aircraft_id /\ flight.status = "scheduled"
      aircraftFlights == SelectSeq(existingFlights, isCandidate)
      newStart == NewDate(newFlight.departure_time)
      newEnd == NewDate(newFlight.arrival_time)
  IN \E i \in 1..Len(aircraftFlights) :
       LET existingStart == NewDate(aircraftFlights[i].departure_time)
           existingEnd == NewDate(aircraftFlights[i].arrival_time)
       IN newStart <= existingEnd /\ newEnd > existingStart

\* Variant of checkFlightConflict that only asks whether the candidate starts
\* inside an existing flight.
checkFlightConflict_StartInside(newFlight, existingFlights) ==
  LET isCandidate(flight) ==
        flight.aircraft_id = newFlight.aircraft_id /\ flight.status = "scheduled"
      aircraftFlights == SelectSeq(existingFlights, isCandidate)
      newStart == NewDate(newFlight.departure_time)
  IN \E i \in 1..Len(aircraftFlights) :
       LET existingStart == NewDate(aircraftFlights[i].departure_time)
           existingEnd == NewDate(aircraftFlights[i].arrival_time)
       IN newStart < existingEnd /\ newStart >= existingStart

\* flight-utils.checkFlightConflict
checkFlightConflict(newFlight, existingFlights) ==
  LET isCandidate(flight) ==
        flight.aircraft_id = newFlight.aircraft_id /\ flight.status = "scheduled"
      aircraftFlights == SelectSeq(existingFlights, isCandidate)
      newStart == NewDate(newFlight.departure_time)
      newEnd == NewDate(newFlight.arrival_time)
  IN \E i \in 1..Len(aircraftFlights) :
       LET existingStart == NewDate(aircraftFlights[i].departure_time)
           existingEnd == NewDate(aircraftFlights[i].arrival_time)
       IN newStart < existingEnd /\ newEnd > existingStart

\* [...new Set(existingFlights.map(f => f.aircraft_id))]: the distinct
\* aircraft ids in order of first occurrence.
RECURSIVE DistinctAircraft(_)
DistinctAircraft(fs) ==
  IF fs = <<>> THEN <<>>
  ELSE LET front == DistinctAircraft(SubSeq(fs, 1, Len(fs) - 1))
           a == fs[Len(fs)].aircraft_id
       IN IF \E i \in 1..Len(front) : front[i] = a THEN front
          ELSE Append(front, a)

\* The body of the for loop of findConflictingFlights for one aircraft.
conflictingFlights(startTime, endTime, currentAircraftId, existingFlights) ==
  LET isCandidate(flight) ==
        flight.aircraft_id = currentAircraftId /\ flight.status = "scheduled"
      aircraftFlights == SelectSeq(existingFlights, isCandidate)
      isConflict(flight) ==
        LET existingStart == NewDate(flight.departure_time)
            existingEnd == NewDate(flight.arrival_time)
        IN startTime < existingEnd /\ endTime > existingStart
  IN SelectSeq(aircraftFlights, isConflict)

RECURSIVE pushConflicts(_, _, _, _)
pushConflicts(startTime, endTime, aircraftToCheck, existingFlights) ==
  IF aircraftToCheck = <<>> THEN <<>>
  ELSE conflictingFlights(startTime, endTime, Head(aircraftToCheck), existingFlights)
       \o pushConflicts(startTime, endTime, Tail(aircraftToCheck), existingFlights)

\* Variant of findConflictingFlights that drops only cancelled flights.
findConflictingFlights_NotCancelled(startTime, endTime, aircraftId, existingFlights) ==
  LET isConflict(flight) ==
        /\ aircraftId # Null => flight.aircraft_id = aircraftId
        /\ flight.status # "cancelled"
        /\ startTime < NewDate(flight.arrival_time)
        /\ endTime > NewDate(flight.departure_time)
  IN SelectSeq(existingFlights, isConflict)

\* Variant of findConflictingFlights with closed bounds (<=, >=).
findConflictingFlights_Closed(startTime, endTime, aircraftId, existingFlights) ==
  LET isConflict(flight) ==
        /\ aircraftId # Null => flight.aircraft_id = aircraftId
        /\ flight.status = "scheduled"
        /\ startTime <= NewDate(flight.arrival_time)
        /\ endTime >= NewDate(flight.departure_time)
  IN SelectSeq(existingFlights, isConflict)

\* Variant of findConflictingFlights that searches every aircraft of the list
\* even when an aircraftId is given.
findConflictingFlights_AllAircraft(startTime, endTime, aircraftId, existingFlights) ==
  pushConflicts(startTime, endTime, DistinctAircraft(existingFlights),
                existingFlights)

\* Variant of findConflictingFlights that stops at the first conflict of each
\* aircraft.
findConflictingFlights_FirstOnly(startTime, endTime, aircraftId, existingFlights) ==
  LET aircraftToCheck ==
        IF aircraftId # Null THEN <<aircraftId>>
        ELSE DistinctAircraft(existingFlights)
      firstOf(list) == IF list = <<>> THEN <<>> ELSE <<Head(list)>>
      perAircraft == [i \in 1..Len(aircraftToCheck) |->
                        firstOf(conflictingFlights(startTime, endTime,
                                                   aircraftToCheck[i],
                                                   existingFlights))]
  IN IF Len(perAircraft) = 0 THEN <<>>
     ELSE IF Len(perAircraft) = 1 THEN perAircraft[1]
     ELSE perAircraft[1] \o perAircraft[2]

\* Variant of findConflictingFlights without the Set: one pass per flight of
\* the list instead of one pass per distinct aircraft.
findConflictingFlights_NoSet(startTime, endTime, aircraftId, existingFlights) ==
  LET aircraftToCheck ==
        IF aircraftId # Null THEN <<aircraftId>>
        ELSE [i \in 1..Len(existingFlights) |-> existingFlights[i].aircraft_id]
  IN pushConflicts(startTime, endTime, aircraftToCheck, existingFlights)

\* Variant of findConflictingFlights that filters the whole list in one pass,
\* in input order, instead of aircraft by aircraft.
findConflictingFlights_InputOrder(startTime, endTime, aircraftId, existingFlights) ==
  LET isConflict(flight) ==
        /\ aircraftId # Null => flight.aircraft_id = aircraftId
        /\ flight.status = "scheduled"
        /\ startTime < NewDate(flight.arrival_time)
        /\ endTime > NewDate(flight.departure_time)
  IN SelectSeq(existingFlights, isConflict)

\* Variant of findConflictingFlights that takes a null aircraftId for an
\* aircraft id like any other.
findConflictingFlights_NullIsAnId(startTime, endTime, aircraftId, existingFlights) ==
  pushConflicts(startTime, endTime, <<aircraftId>>, existingFlights)

\* flight-utils.findConflictingFlights; startTime and endTime are Dates, and
\* aircraftId is an aircraft id or Null (the callers pass `resourceId || null`).
findConflictingFlights(startTime, endTime, aircraftId, existingFlights) ==
  LET aircraftToCheck ==
        IF aircraftId # Null THEN <<aircraftId>>
        ELSE DistinctAircraft(existingFlights)
  IN pushConflicts(startTime, endTime, aircraftToCheck, existingFlights)

\* formatDateTime: new Date(dateString).toLocaleString(), as the en-US locale
\* renders an instant of January 1970 in UTC ("1/1/1970, 1:00:00 AM").
formatDateTime(dateString) ==
  LET hours == NewDate(dateString) \div 3600000
      day == hours \div 24 + 1
      hour12 == ((((hours % 24) + 11) % 12) + 1)
  IN "1/" \o ToString(day) \o "/1970, " \o ToString(hour12) \o ":00:00 "
       \o (IF hours % 24 < 12 THEN "AM" ELSE "PM")

\* Array.prototype.sort with the comparator of getAircraftAvailability:
\* ascending departure_time, stable.
RECURSIVE sortByDeparture(_)
sortByDeparture(fs) ==
  IF fs = <<>> THEN <<>>
  ELSE LET front == sortByDeparture(SubSeq(fs, 1, Len(fs) - 1))
           last == fs[Len(fs)]
           before(f) == NewDate(f.departure_time) - NewDate(last.departure_time) <= 0
           after(f) == ~before(f)
       IN SelectSeq(front, before) \o <<last>> \o SelectSeq(front, after)

\* Variant of getAircraftAvailability that counts a flight until it has
\* arrived.
getAircraftAvailability_UntilArrival(aircraft, flights, clock) ==
  LET upcoming(flight) ==
        /\ flight.aircraft_id = aircraft.id
        /\ flight.status = "scheduled"
        /\ NewDate(flight.arrival_time) > NewDate(clock)
      aircraftFlights == sortByDeparture(SelectSeq(flights, upcoming))
  IN IF Len(aircraftFlights) = 0 THEN "Available"
     ELSE "Next: " \o formatDateTime(aircraftFlights[1].departure_time)

\* Variant of getAircraftAvailability without the sort.
getAircraftAvailability_Unsorted(aircraft, flights, clock) ==
  LET upcoming(flight) ==
        /\ flight.aircraft_id = aircraft.id
        /\ flight.status = "scheduled"
        /\ NewDate(flight.departure_time) > NewDate(clock)
      aircraftFlights == SelectSeq(flights, upcoming)
  IN IF Len(aircraftFlights) = 0 THEN "Available"
     ELSE "Next: " \o formatDateTime(aircraftFlights[1].departure_time)

\* flight-utils.getAircraftAvailability; clock is what new Date() reads.
getAircraftAvailability(aircraft, flights, clock) ==
  LET upcoming(flight) ==
        /\ flight.aircraft_id = aircraft.id
        /\ flight.status = "scheduled"
        /\ NewDate(flight.departure_time) > NewDate(clock)
      aircraftFlights == sortByDeparture(SelectSeq(flights, upcoming))
  IN IF Len(aircraftFlights) = 0 THEN "Available"
     ELSE LET nextFlight == aircraftFlights[1]
              formattedTime == formatDateTime(nextFlight.departure_time)
          IN "Next: " \o formattedTime

\* ---------------------------------------------------------------- state
\* ---------------------------------------------------------------- argument arrays
\* The existingFlights array when checkFlightConflict returns: filter builds
\* a new array and some only reads.
existingFlightsAfterCheck(newFlight, existingFlights) == existingFlights

\* The existingFlights array when findConflictingFlights returns: map, Set
\* and filter build new values, and push appends to the local conflicts.
existingFlightsAfterFind(startTime, endTime, aircraftId, existingFlights) ==
  existingFlights

\* Variant of flightsAfterAvailability in which sort is applied to flights
\* itself, before the filter.
flightsAfterAvailability_SortsArgument(aircraft, flights, clock) ==
  sortByDeparture(flights)

\* The flights array when getAircraftAvailability returns: sort reorders in
\* place the array filter built, not flights.
flightsAfterAvailability(aircraft, flights, clock) == flights

VARIABLES
  \* the engine functions' arguments and the record of the call made
  existingFlights,   \* the Flight[] argument
  newFlight,         \* the NewFlight argument / the candidate window
  ret,               \* what the call returned
  \* the tables and the clock
  store,             \* rows of the flights table, in insertion order
  now,               \* the current hour
  fleet,             \* the ids of the rows of the aircraft table
  \* one Dashboard per dispatcher
  active,            \* the dispatchers that have a Dashboard open
  allFlights,        \* Dashboard state allFlights
  flights,           \* Dashboard state flights
  loading,           \* Dashboard state loading
  error,             \* Dashboard state error
  showModal,         \* Dashboard state showModal
  load,              \* the outstanding loadData() call
  modal,             \* AddFlightModal state: loading, error
  pc,                \* where handleAddFlight stands
  pending,           \* the newFlight handleAddFlight was called with
  created,           \* the row createFlight returned
  verdict,           \* how the last handleSubmit ended
  raced,             \* the insert went in over a conflicting stored flight
  conflictData,      \* Dashboard state conflictData
  showConflictModal, \* Dashboard state showConflictModal
  prefilledData      \* Dashboard state prefilledData

engineVars == <<existingFlights, newFlight, ret>>
calendarVars == <<conflictData, showConflictModal, prefilledData>>
bookingVars == <<store, now, fleet, active, allFlights, flights, loading, error,
                 showModal, load, modal, pc, pending, created, verdict, raced,
                 calendarVars>>
vars == <<engineVars, bookingVars>>

NoRet == [fn |-> "none", aircraftId |-> Null, index |-> 0, bool |-> FALSE,
          list |-> <<>>, pilotId |-> Null, excludeFlightId |-> 0,
          str |-> ""]
NoNewFlight == MkNewFlight("", 0, 0)
NoFlight == MkFlight(0, "", 0, 0, "none")
NoLoad == [sent |-> FALSE, now |-> 0, gotFlights |-> FALSE, flightsData |-> <<>>,
           gotAllFlights |-> FALSE, allFlightsData |-> <<>>]
NoModal == [loading |-> FALSE, error |-> Null]
\* conflictData and prefilledData when they are null.
NoConflictData == [conflicts |-> <<>>, selectedTime |-> [start |-> 0, end |-> 0],
                   selectedAircraft |-> Null]
NoPrefilledData == [aircraft_id |-> Null, departure_time |-> 0, arrival_time |-> 0]

\* No Dashboard is open.
NoDashboard ==
  /\ fleet = {}
  /\ active = {}
  /\ allFlights = [d \in Dispatchers |-> <<>>]
  /\ flights = [d \in Dispatchers |-> <<>>]
  /\ loading = [d \in Dispatchers |-> FALSE]
  /\ error = [d \in Dispatchers |-> Null]
  /\ showModal = [d \in Dispatchers |-> FALSE]
  /\ load = [d \in Dispatchers |-> NoLoad]
  /\ modal = [d \in Dispatchers |-> NoModal]
  /\ pc = [d \in Dispatchers |-> "idle"]
  /\ pending = [d \in Dispatchers |-> NoNewFlight]
  /\ created = [d \in Dispatchers |-> NoFlight]
  /\ verdict = [d \in Dispatchers |-> "none"]
  /\ raced = [d \in Dispatchers |-> FALSE]
  /\ conflictData = [d \in Dispatchers |-> NoConflictData]
  /\ showConflictModal = [d \in Dispatchers |-> FALSE]
  /\ prefilledData = [d \in Dispatchers |-> NoPrefilledData]

\* The booking state while only the engine functions are exercised.
BookingIdle == store = <<>> /\ now = 0 /\ NoDashboard

\* ---------------------------------------------------------------- SpecEngine
\* The flights an engine function can be handed: any aircraft, any status,
\* a well-formed window.
FlightInputs ==
  {MkFlight(0, a, w[1], w[2], st) : a \in Aircraft, w \in Windows, st \in Statuses}

\* The lists of n flights, with ids 1..n.
FlightLists(n) ==
  {[i \in 1..n |-> [l[i] EXCEPT !.id = i]] : l \in [1..n -> FlightInputs]}

NewFlightInputs == {MkNewFlight(a, w[1], w[2]) : a \in Aircraft, w \in Windows}

InitEngine ==
  /\ \E n \in 0..MaxLen : existingFlights \in FlightLists(n)
  /\ newFlight \in NewFlightInputs
  /\ ret = NoRet
  /\ BookingIdle

\* checkFlightConflict(newFlight, existingFlights)
CallCheckFlightConflict ==
  /\ ret.fn = "none"
  /\ ret' = [NoRet EXCEPT !.fn = "checkFlightConflict",
                          !.bool = checkFlightConflict(newFlight, existingFlights)]
  /\ existingFlights' = existingFlightsAfterCheck(newFlight, existingFlights)
  /\ UNCHANGED <<newFlight, bookingVars>>

\* checkFlightConflict with the roles of the candidate and of the scheduled
\* flight existingFlights[i] exchanged.
CallCheckFlightConflictSwapped(i) ==
  /\ ret.fn = "none"
  /\ i \in 1..Len(existingFlights)
  /\ LET e == existingFlights[i]
         asNew == MkNewFlight(e.aircraft_id, e.departure_time, e.arrival_time)
         asFlight == MkFlight(1, newFlight.aircraft_id, newFlight.departure_time,
                              newFlight.arrival_time, "scheduled")
     IN ret' = [NoRet EXCEPT !.fn = "checkFlightConflictSwapped", !.index = i,
                             !.bool = checkFlightConflict(asNew, <<asFlight>>)]
  /\ UNCHANGED <<existingFlights, newFlight, bookingVars>>

\* findConflictingFlights(new Date(departure), new Date(arrival), aircraftId,
\* existingFlights)
CallFindConflictingFlights(aircraftId) ==
  /\ ret.fn = "none"
  /\ ret' = [NoRet EXCEPT !.fn = "findConflictingFlights",
                          !.aircraftId = aircraftId,
                          !.list = findConflictingFlights(
                                     NewDate(newFlight.departure_time),
                                     NewDate(newFlight.arrival_time),
                                     aircraftId, existingFlights)]
  /\ existingFlights' = existingFlightsAfterFind(NewDate(newFlight.departure_time),
                                                 NewDate(newFlight.arrival_time),
                                                 aircraftId, existingFlights)
  /\ UNCHANGED <<newFlight, bookingVars>>

NextEngine ==
  \/ CallCheckFlightConflict
  \/ \E i \in 1..MaxLen : CallCheckFlightConflictSwapped(i)
  \/ \E aircraftId \in Aircraft \cup {Null} : CallFindConflictingFlights(aircraftId)

SpecEngine == InitEngine /\ [][NextEngine]_vars

\* ---------------------------------------------------------------- SpecGroups
\* Flights for the longer lists: any aircraft, scheduled or cancelled, in the
\* first or in the last hour.
GroupInputs ==
  {MkFlight(0, a, w[1], w[2], st) :
     a \in Aircraft, st \in {"scheduled", "cancelled"},
     w \in {<<0, 1>>, <<MaxTime - 1, MaxTime>>}}

\* The lists of n such flights, with ids 1..n.
GroupLists(n) ==
  {[i \in 1..n |-> [l[i] EXCEPT !.id = i]] : l \in [1..n -> GroupInputs]}

InitGroups ==
  /\ \E n \in 0..MaxGroupLen : existingFlights \in GroupLists(n)
  /\ newFlight \in NewFlightInputs
  /\ ret = NoRet
  /\ BookingIdle

SpecGroups == InitGroups /\ [][NextEngine]_vars

\* ---------------------------------------------------------------- SpecAvailability
InitAvailability ==
  /\ \E n \in 0..MaxLen : existingFlights \in FlightLists(n)
  /\ newFlight = NoNewFlight
  /\ ret = NoRet
  /\ store = <<>>
  /\ now \in Times
  /\ NoDashboard

\* getAircraftAvailability(aircraft, existingFlights), called at hour now.
CallGetAircraftAvailability(a) ==
  /\ ret.fn = "none"
  /\ ret' = [NoRet EXCEPT !.fn = "getAircraftAvailability", !.aircraftId = a,
                          !.str = getAircraftAvailability([id |-> a],
                                                          existingFlights, now)]
  /\ existingFlights' = flightsAfterAvailability([id |-> a], existingFlights, now)
  /\ UNCHANGED <<newFlight, bookingVars>>

NextAvailability == \E a \in Aircraft : CallGetAircraftAvailability(a)

SpecAvailability == InitAvailability /\ [][NextAvailability]_vars

\* ---------------------------------------------------------------- SpecPure
\* The three engine functions on one list, at any hour.
InitPure ==
  /\ \E n \in 0..MaxLen : existingFlights \in FlightLists(n)
  /\ newFlight \in NewFlightInputs
  /\ ret = NoRet
  /\ store = <<>>
  /\ now \in Times
  /\ NoDashboard

NextPure ==
  \/ CallCheckFlightConflict
  \/ \E aircraftId \in Aircraft \cup {Null} : CallFindConflictingFlights(aircraftId)
  \/ \E a \in Aircraft : CallGetAircraftAvailability(a)

SpecPure == InitPure /\ [][NextPure]_vars

\* ---------------------------------------------------------------- SpecPilot
\* Variant of isPilotAvailable whose time filter is the conjunction.
isPilotAvailable_And(pilotId, departureTime, arrivalTime, excludeFlightId, table) ==
  LET selected(row) ==
        /\ row.captain_id = pilotId \/ row.first_officer_id = pilotId
        /\ row.status = "scheduled"
        /\ row.departure_time < arrivalTime /\ row.arrival_time > departureTime
        /\ excludeFlightId # 0 => row.id # excludeFlightId
  IN Len(SelectSeq(table, selected)) = 0

\* FlightService.isPilotAvailable: the query
\*   .or(captain_id.eq.pilotId, first_officer_id.eq.pilotId)
\*   .eq('status', 'scheduled')
\*   .or(departure_time.lt.arrivalTime, arrival_time.gt.departureTime)
\*   [.neq('id', excludeFlightId)]
\* over the rows of the flights table; true when it selects no row.
isPilotAvailable(pilotId, departureTime, arrivalTime, excludeFlightId, table) ==
  LET selected(row) ==
        /\ row.captain_id = pilotId \/ row.first_officer_id = pilotId
        /\ row.status = "scheduled"
        /\ row.departure_time < arrivalTime \/ row.arrival_time > departureTime
        /\ excludeFlightId # 0 => row.id # excludeFlightId
      data == SelectSeq(table, selected)
  IN Len(data) = 0

\* Rows of the flights table with their crew: captain and first officer are
\* optional; scheduled or completed; a well-formed window.
CrewFlightInputs ==
  {[id |-> 0, aircraft_id |-> "a1", captain_id |-> cap, first_officer_id |-> fo,
    departure_time |-> w[1], arrival_time |-> w[2], status |-> st] :
     cap \in Pilots \cup {Null}, fo \in Pilots \cup {Null},
     st \in {"scheduled", "completed"},
     w \in {v \in (0..MaxHour) \X (0..MaxHour) : v[1] < v[2]}}

\* The tables of n such rows, with ids 1..n.
CrewTables(n) ==
  {[i \in 1..n |-> [l[i] EXCEPT !.id = i]] : l \in [1..n -> CrewFlightInputs]}

InitPilot ==
  /\ existingFlights = <<>>
  /\ newFlight = NoNewFlight
  /\ ret = NoRet
  /\ \E n \in 0..MaxFlights : store \in CrewTables(n)
  /\ now = 0
  /\ NoDashboard

\* isPilotAvailable(pilotId, departureTime, arrivalTime, excludeFlightId)
\* resolves; excludeFlightId 0 stands for the argument left out.
CallIsPilotAvailable(pilotId, departureTime, arrivalTime, excludeFlightId) ==
  /\ ret.fn = "none"
  /\ departureTime < arrivalTime
  /\ newFlight' = MkNewFlight("", departureTime, arrivalTime)
  /\ ret' = [NoRet EXCEPT !.fn = "isPilotAvailable", !.pilotId = pilotId,
                          !.excludeFlightId = excludeFlightId,
                          !.bool = isPilotAvailable(pilotId, departureTime,
                                                    arrivalTime, excludeFlightId,
                                                    store)]
  /\ UNCHANGED <<existingFlights, bookingVars>>

\* isPilotAvailable throws: the query returned an error.
CallIsPilotAvailableThrows ==
  /\ ret.fn = "none"
  /\ ret' = [NoRet EXCEPT !.fn = "isPilotAvailableThrew"]
  /\ UNCHANGED <<existingFlights, newFlight, bookingVars>>

NextPilot ==
  \/ \E pilotId \in Pilots, departureTime \in 0..MaxHour, arrivalTime \in 0..MaxHour,
        excludeFlightId \in 0..MaxFlights :
       CallIsPilotAvailable(pilotId, departureTime, arrivalTime, excludeFlightId)
  \/ CallIsPilotAvailableThrows

SpecPilot == InitPilot /\ [][NextPilot]_vars

\* ---------------------------------------------------------------- SpecService
\* FlightService.updateFlightTimes resolves: the user is signed in and the row
\* flightId exists; the update writes the two times it was given. The rows of
\* the model carry no updated_at column.
updateFlightTimes(flightId, departureTime, arrivalTime) ==
  /\ flightId \in 1..Len(store)
  /\ store' = [store EXCEPT ![flightId].departure_time = departureTime,
                            ![flightId].arrival_time = arrivalTime]
  /\ ret' = [NoRet EXCEPT !.fn = "updateFlightTimes", !.index = flightId]
  /\ UNCHANGED <<existingFlights, newFlight, now, fleet, active, allFlights, flights,
                 loading, error, showModal, load, modal, pc, pending, created,
                 verdict, raced, calendarVars>>

\* updateFlightTimes throws: no user, or the update returned an error (no
\* row has the id); nothing is written.
updateFlightTimesThrows ==
  /\ ret' = [NoRet EXCEPT !.fn = "updateFlightTimesThrew"]
  /\ ret' # ret
  /\ UNCHANGED <<existingFlights, newFlight, bookingVars>>

\* The Partial<Flight> values updateFlight is given here: a new window, or a
\* new status.
UpdateInputs ==
  {[departure_time |-> dep, arrival_time |-> arr] :
     dep \in 0..MaxHour, arr \in 0..MaxHour}
    \cup {[status |-> st] : st \in {"scheduled", "cancelled"}}

\* FlightService.updateFlight resolves: .update(updates).eq('id', flightId)
\* overwrites the columns updates names and leaves the others.
updateFlight(flightId, updates) ==
  /\ flightId \in 1..Len(store)
  /\ store' = [store EXCEPT ![flightId] = updates @@ @]
  /\ ret' = [NoRet EXCEPT !.fn = "updateFlight", !.index = flightId]
  /\ UNCHANGED <<existingFlights, newFlight, now, fleet, active, allFlights, flights,
                 loading, error, showModal, load, modal, pc, pending, created,
                 verdict, raced, calendarVars>>

\* updateFlight throws: the update returned an error; nothing is written.
updateFlightThrows ==
  /\ ret' = [NoRet EXCEPT !.fn = "updateFlightThrew"]
  /\ ret' # ret
  /\ UNCHANGED <<existingFlights, newFlight, bookingVars>>

NextService ==
  \/ \E flightId \in 1..MaxFlights, departureTime \in 0..MaxHour,
        arrivalTime \in 0..MaxHour :
       updateFlightTimes(flightId, departureTime, arrivalTime)
  \/ updateFlightTimesThrows
  \/ \E flightId \in 1..MaxFlights, updates \in UpdateInputs :
       updateFlight(flightId, updates)
  \/ updateFlightThrows

\* The service on a table of well-formed flights with their crews.
SpecService == InitPilot /\ [][NextService]_vars

\* ---------------------------------------------------------------- flights table
\* .order('departure_time'): the rows in ascending departure_time; the order
\* of rows with equal departure_time is the database's choice.
OrderByDeparture(rows) ==
  {s \in {[i \in 1..Len(rows) |-> rows[p[i]]] : p \in Permutations(1..Len(rows))} :
     \A i, j \in 1..Len(s) : i < j => s[i].departure_time <= s[j].departure_time}

\* FlightService.getFlights: the rows with departure_time >= requestNow.
getFlights(requestNow, table) ==
  LET upcoming(row) == row.departure_time >= requestNow
  IN OrderByDeparture(SelectSeq(table, upcoming))

\* FlightService.getAllFlights: every row.
getAllFlights(table) == OrderByDeparture(table)

\* Variant of flightData that leaves the status out of the row.
flightData_StatusLeftOut(candidate, table) ==
  MkFlight(Len(table) + 1, candidate.aircraft_id, candidate.departure_time,
           candidate.arrival_time, Null)

\* FlightService.createFlight: the row inserted, status forced to scheduled.
flightData(candidate, table) ==
  MkFlight(Len(table) + 1, candidate.aircraft_id, candidate.departure_time,
           candidate.arrival_time, "scheduled")

\* Variant of insertFlight in which the table refuses a row that conflicts
\* with a stored scheduled flight.
insertFlight_Exclusive(candidate, table) ==
  IF checkFlightConflict(candidate, table) THEN table
  ELSE Append(table, flightData(candidate, table))

\* FlightService.createFlight: the table after .insert([flightData]).
insertFlight(candidate, table) == Append(table, flightData(candidate, table))

\* ---------------------------------------------------------------- Dashboard
ConflictMessage == "Flight conflicts with existing schedule"

\* The Dashboard of d renders its controls: not the loading screen, not the
\* error screen.
Interactive(d) == d \in active /\ ~loading[d] /\ error[d] = Null

\* Rows the table will hold once every createFlight under way has inserted.
Committed == Len(store) + Cardinality({d \in Dispatchers : pc[d] = "createFlight"})

\* AddFlightModal.handleSubmit validation: the message thrown, or Null.
validationError(formData, clock) ==
  IF formData.aircraft_id = "" THEN "Please fill in all required fields"
  ELSE IF NewDate(formData.departure_time) >= NewDate(formData.arrival_time)
       THEN "Arrival time must be after departure time"
  ELSE IF NewDate(formData.departure_time) < NewDate(clock)
       THEN "Departure time cannot be in the past"
  ELSE Null

\* Variant of conflictThrown that never throws.
conflictThrown_Ignored(candidate, snapshot) == FALSE

\* Dashboard.handleAddFlight, line 859: does the call throw before createFlight?
conflictThrown(candidate, snapshot) == checkFlightConflict(candidate, snapshot)

\* Dashboard.loadData up to its await: setLoading(true) and the four queries
\* sent; getFlights fixes its `now` when it is called.
loadDataSent == [NoLoad EXCEPT !.sent = TRUE, !.now = now]

\* The flights table when the dashboards open: empty, or one earlier flight
\* of the fleet, scheduled or cancelled.
InitialTables ==
  {<<>>} \cup {<<MkFlight(1, a, w[1], w[2], st)>> :
                 a \in fleet, st \in {"scheduled", "cancelled"},
                 w \in {v \in (0..MaxHour) \X (0..MaxHour) : v[1] < v[2]}}

InitBooking ==
  /\ existingFlights = <<>>
  /\ newFlight = NoNewFlight
  /\ ret = NoRet
  /\ store \in InitialTables
  /\ now = 0
  /\ allFlights = [d \in Dispatchers |-> <<>>]
  /\ flights = [d \in Dispatchers |-> <<>>]
  /\ loading = [d \in Dispatchers |-> d \in active]
  /\ error = [d \in Dispatchers |-> Null]
  /\ showModal = [d \in Dispatchers |-> FALSE]
  /\ load = [d \in Dispatchers |-> IF d \in active THEN loadDataSent ELSE NoLoad]
  /\ modal = [d \in Dispatchers |-> NoModal]
  /\ pc = [d \in Dispatchers |-> "idle"]
  /\ pending = [d \in Dispatchers |-> NoNewFlight]
  /\ created = [d \in Dispatchers |-> NoFlight]
  /\ verdict = [d \in Dispatchers |-> "none"]
  /\ raced = [d \in Dispatchers |-> FALSE]
  /\ conflictData = [d \in Dispatchers |-> NoConflictData]
  /\ showConflictModal = [d \in Dispatchers |-> FALSE]
  /\ prefilledData = [d \in Dispatchers |-> NoPrefilledData]

\* Two dispatchers have the Dashboard open, on a fleet of one aircraft.
Init == active = Dispatchers /\ fleet = {"a1"} /\ InitBooking

\* One dispatcher has the Dashboard open, on a fleet of two aircraft.
InitSolo == active = {"d1"} /\ fleet = Aircraft /\ InitBooking

\* The clock advances.
Tick ==
  /\ now < MaxHour
  /\ now' = now + 1
  /\ UNCHANGED <<engineVars, calendarVars, store, fleet, active, allFlights, flights, loading, error,
                 showModal, load, modal, pc, pending, created, verdict, raced>>

\* loadData: the getFlights query of d's load is answered.
loadGetFlights(d) ==
  /\ load[d].sent /\ ~load[d].gotFlights
  /\ \E data \in getFlights(load[d].now, store) :
       load' = [load EXCEPT ![d].gotFlights = TRUE, ![d].flightsData = data]
  /\ UNCHANGED <<engineVars, calendarVars, store, now, fleet, active, allFlights, flights, loading,
                 error, showModal, modal, pc, pending, created, verdict, raced>>

\* loadData: the getAllFlights query of d's load is answered.
loadGetAllFlights(d) ==
  /\ load[d].sent /\ ~load[d].gotAllFlights
  /\ \E data \in getAllFlights(store) :
       load' = [load EXCEPT ![d].gotAllFlights = TRUE, ![d].allFlightsData = data]
  /\ UNCHANGED <<engineVars, calendarVars, store, now, fleet, active, allFlights, flights, loading,
                 error, showModal, modal, pc, pending, created, verdict, raced>>

\* loadData after Promise.all resolved: the setters, then finally.
loadDataResolved(d) ==
  /\ load[d].sent /\ load[d].gotFlights /\ load[d].gotAllFlights
  /\ flights' = [flights EXCEPT ![d] = load[d].flightsData]
  /\ allFlights' = [allFlights EXCEPT ![d] = load[d].allFlightsData]
  /\ loading' = [loading EXCEPT ![d] = FALSE]
  /\ load' = [load EXCEPT ![d] = NoLoad]
  /\ UNCHANGED <<engineVars, calendarVars, store, now, fleet, active, error, showModal, modal, pc,
                 pending, created, verdict, raced>>

\* loadData when one of its queries throws: catch, then finally.
loadDataRejected(d) ==
  /\ load[d].sent
  /\ error' = [error EXCEPT ![d] = "Failed to load data"]
  /\ loading' = [loading EXCEPT ![d] = FALSE]
  /\ load' = [load EXCEPT ![d] = NoLoad]
  /\ UNCHANGED <<engineVars, calendarVars, store, now, fleet, active, allFlights, flights, showModal,
                 modal, pc, pending, created, verdict, raced>>

\* The "Schedule Flight" button: setPrefilledData(null); setShowModal(true).
openModal(d) ==
  /\ Interactive(d) /\ ~showModal[d] /\ ~showConflictModal[d] /\ pc[d] = "idle"
  /\ showModal' = [showModal EXCEPT ![d] = TRUE]
  /\ prefilledData' = [prefilledData EXCEPT ![d] = NoPrefilledData]
  /\ modal' = [modal EXCEPT ![d] = NoModal]
  /\ verdict' = [verdict EXCEPT ![d] = "none"]
  /\ UNCHANGED <<engineVars, conflictData, showConflictModal, store, now, fleet,
                 active, allFlights, flights, loading, error, load, pc, pending,
                 created, raced>>

\* AddFlightModal onClose: setShowModal(false); setPrefilledData(null).
closeModal(d) ==
  /\ Interactive(d) /\ showModal[d] /\ ~modal[d].loading
  /\ showModal' = [showModal EXCEPT ![d] = FALSE]
  /\ prefilledData' = [prefilledData EXCEPT ![d] = NoPrefilledData]
  /\ modal' = [modal EXCEPT ![d] = NoModal]
  /\ verdict' = [verdict EXCEPT ![d] = "none"]
  /\ UNCHANGED <<engineVars, conflictData, showConflictModal, store, now, fleet,
                 active, allFlights, flights, loading, error, load, pc, pending,
                 created, raced>>

\* AddFlightModal.handleSubmit calling Dashboard.handleAddFlight, up to the
\* await of createFlight.
handleSubmit(d, formData) ==
  /\ Interactive(d) /\ showModal[d] /\ ~modal[d].loading /\ pc[d] = "idle"
  /\ Committed < MaxFlights
  /\ LET invalid == validationError(formData, now)
     IN IF invalid # Null
        THEN /\ modal' = [modal EXCEPT ![d] = [loading |-> FALSE, error |-> invalid]]
             /\ verdict' = [verdict EXCEPT ![d] = "invalid"]
             /\ UNCHANGED <<pc, pending>>
        ELSE IF conflictThrown(formData, allFlights[d])
        THEN /\ modal' = [modal EXCEPT ![d] =
                            [loading |-> FALSE, error |-> ConflictMessage]]
             /\ verdict' = [verdict EXCEPT ![d] = "conflict"]
             /\ UNCHANGED <<pc, pending>>
        ELSE /\ modal' = [modal EXCEPT ![d] = [loading |-> TRUE, error |-> Null]]
             /\ verdict' = [verdict EXCEPT ![d] = "passed"]
             /\ pc' = [pc EXCEPT ![d] = "createFlight"]
             /\ pending' = [pending EXCEPT ![d] = formData]
  /\ UNCHANGED <<engineVars, calendarVars, store, now, fleet, active, allFlights, flights, loading,
                 error, showModal, load, created, raced>>

\* FlightService.createFlight: the insert reaches the table.
createFlight(d) ==
  /\ pc[d] = "createFlight"
  /\ store' = insertFlight(pending[d], store)
  /\ created' = [created EXCEPT ![d] = flightData(pending[d], store)]
  /\ raced' = [raced EXCEPT ![d] = checkFlightConflict(pending[d], store)]
  /\ pc' = [pc EXCEPT ![d] = "created"]
  /\ UNCHANGED <<engineVars, calendarVars, now, fleet, active, allFlights, flights, loading, error,
                 showModal, load, modal, pending, verdict>>

\* Variant of createFlightThrows in which the catch of handleAddFlight does not
\* rethrow: handleSubmit sees the await resolve and shows no error.
createFlightThrows_Swallowed(d) ==
  /\ pc[d] = "createFlight"
  /\ pc' = [pc EXCEPT ![d] = "idle"]
  /\ pending' = [pending EXCEPT ![d] = NoNewFlight]
  /\ modal' = [modal EXCEPT ![d] = [loading |-> FALSE, error |-> Null]]
  /\ verdict' = [verdict EXCEPT ![d] = "threw"]
  /\ UNCHANGED <<engineVars, calendarVars, store, now, fleet, active, allFlights, flights, loading,
                 error, showModal, load, created, raced>>

\* FlightService.createFlight throws (no user, or the insert failed);
\* handleAddFlight rethrows and handleSubmit shows the message.
createFlightThrows(d) ==
  /\ pc[d] = "createFlight"
  /\ pc' = [pc EXCEPT ![d] = "idle"]
  /\ pending' = [pending EXCEPT ![d] = NoNewFlight]
  /\ modal' = [modal EXCEPT ![d] =
                 [loading |-> FALSE,
                  error |-> "You must be logged in to create a flight"]]
  /\ verdict' = [verdict EXCEPT ![d] = "threw"]
  /\ UNCHANGED <<engineVars, calendarVars, store, now, fleet, active, allFlights, flights, loading,
                 error, showModal, load, created, raced>>

\* Variant of handleAddFlightResumes without the two appends: the created
\* flight is left to the reload.
handleAddFlightResumes_NoAppend(d) ==
  /\ pc[d] = "created"
  /\ loading' = [loading EXCEPT ![d] = TRUE]
  /\ load' = [load EXCEPT ![d] = loadDataSent]
  /\ showModal' = [showModal EXCEPT ![d] = FALSE]
  /\ modal' = [modal EXCEPT ![d] = NoModal]
  /\ pc' = [pc EXCEPT ![d] = "idle"]
  /\ pending' = [pending EXCEPT ![d] = NoNewFlight]
  /\ created' = [created EXCEPT ![d] = NoFlight]
  /\ UNCHANGED <<engineVars, calendarVars, store, now, fleet, active, allFlights, flights,
                 error, verdict, raced>>

\* Dashboard.handleAddFlight after the await: the two appends, loadData()
\* and setShowModal(false).
handleAddFlightResumes(d) ==
  /\ pc[d] = "created"
  /\ flights' = [flights EXCEPT ![d] = Append(@, created[d])]
  /\ allFlights' = [allFlights EXCEPT ![d] = Append(@, created[d])]
  /\ loading' = [loading EXCEPT ![d] = TRUE]
  /\ load' = [load EXCEPT ![d] = loadDataSent]
  /\ showModal' = [showModal EXCEPT ![d] = FALSE]
  /\ modal' = [modal EXCEPT ![d] = NoModal]
  /\ pc' = [pc EXCEPT ![d] = "idle"]
  /\ pending' = [pending EXCEPT ![d] = NoNewFlight]
  /\ created' = [created EXCEPT ![d] = NoFlight]
  /\ UNCHANGED <<engineVars, calendarVars, store, now, fleet, active, error, verdict, raced>>

\* What the add-flight form can hold at submit: an aircraft of the fleet or
\* none selected, any two hours.
FormInputs ==
  {MkNewFlight(a, dep, arr) : a \in fleet \cup {""}, dep \in 0..MaxHour,
                              arr \in 0..MaxHour}

Next ==
  \/ Tick
  \/ \E d \in active : loadGetFlights(d)
  \/ \E d \in active : loadGetAllFlights(d)
  \/ \E d \in active : loadDataResolved(d)
  \/ \E d \in active : loadDataRejected(d)
  \/ \E d \in active : openModal(d)
  \/ \E d \in active : closeModal(d)
  \/ \E d \in active : \E formData \in FormInputs : handleSubmit(d, formData)
  \/ \E d \in active : createFlight(d)
  \/ \E d \in active : createFlightThrows(d)
  \/ \E d \in active : handleAddFlightResumes(d)

Spec == Init /\ [][Next]_vars

\* ---------------------------------------------------------------- calendar
\* The tail_number of the row of the aircraft table with id a.
tail_number(a) == IF a = "a1" THEN "N101GA" ELSE "N202GA"

\* formatDateTimeLocal of handleSlotSelect: the Date as a datetime-local
\* string (year to minute, local time).
formatDateTimeLocal(date) == date \div 3600000

\* The slots the calendar can hand to onSlotSelect: start before end, in an
\* aircraft lane (resourceId) or in none (Null).
SlotInputs ==
  {[start |-> NewDate(w[1]), end |-> NewDate(w[2]), resourceId |-> r] :
     w \in {v \in (0..MaxHour) \X (0..MaxHour) : v[1] < v[2]},
     r \in fleet \cup {Null}}

\* Variant of handleSlotSelect without the return of the conflict branch: it
\* goes on to prefill and open the create form.
handleSlotSelect_NoReturn(d, slotInfo) ==
  /\ Interactive(d) /\ ~showModal[d] /\ ~showConflictModal[d] /\ pc[d] = "idle"
  /\ LET conflicts == findConflictingFlights(slotInfo.start, slotInfo.end,
                                             slotInfo.resourceId, allFlights[d])
     IN IF Len(conflicts) > 0
        THEN /\ conflictData' =
                  [conflictData EXCEPT ![d] =
                     [conflicts |-> conflicts,
                      selectedTime |-> [start |-> slotInfo.start, end |-> slotInfo.end],
                      selectedAircraft |->
                        IF slotInfo.resourceId # Null
                        THEN tail_number(slotInfo.resourceId) ELSE Null]]
             /\ showConflictModal' = [showConflictModal EXCEPT ![d] = TRUE]
        ELSE UNCHANGED <<conflictData, showConflictModal>>
  /\ prefilledData' =
       [prefilledData EXCEPT ![d] =
          [departure_time |-> formatDateTimeLocal(slotInfo.start),
           arrival_time |-> formatDateTimeLocal(slotInfo.end),
           aircraft_id |-> IF slotInfo.resourceId # Null
                           THEN slotInfo.resourceId ELSE ""]]
  /\ showModal' = [showModal EXCEPT ![d] = TRUE]
  /\ modal' = [modal EXCEPT ![d] = NoModal]
  /\ verdict' = [verdict EXCEPT ![d] = "none"]
  /\ UNCHANGED <<engineVars, store, now, fleet, active, allFlights, flights, loading,
                 error, load, pc, pending, created, raced>>

\* Dashboard.handleSlotSelect
handleSlotSelect(d, slotInfo) ==
  /\ Interactive(d) /\ ~showModal[d] /\ ~showConflictModal[d] /\ pc[d] = "idle"
  /\ LET conflicts == findConflictingFlights(slotInfo.start, slotInfo.end,
                                             slotInfo.resourceId, allFlights[d])
     IN IF Len(conflicts) > 0
        THEN /\ conflictData' =
                  [conflictData EXCEPT ![d] =
                     [conflicts |-> conflicts,
                      selectedTime |-> [start |-> slotInfo.start, end |-> slotInfo.end],
                      selectedAircraft |->
                        IF slotInfo.resourceId # Null
                        THEN tail_number(slotInfo.resourceId) ELSE Null]]
             /\ showConflictModal' = [showConflictModal EXCEPT ![d] = TRUE]
             /\ UNCHANGED <<prefilledData, showModal, modal, verdict>>
        ELSE /\ prefilledData' =
                  [prefilledData EXCEPT ![d] =
                     [departure_time |-> formatDateTimeLocal(slotInfo.start),
                      arrival_time |-> formatDateTimeLocal(slotInfo.end),
                      aircraft_id |-> IF slotInfo.resourceId # Null
                                      THEN slotInfo.resourceId ELSE ""]]
             /\ showModal' = [showModal EXCEPT ![d] = TRUE]
             /\ modal' = [modal EXCEPT ![d] = NoModal]
             /\ verdict' = [verdict EXCEPT ![d] = "none"]
             /\ UNCHANGED <<conflictData, showConflictModal>>
  /\ UNCHANGED <<engineVars, store, now, fleet, active, allFlights, flights, loading,
                 error, load, pc, pending, created, raced>>

\* ConflictModal onClose: setShowConflictModal(false); setConflictData(null).
closeConflictModal(d) ==
  /\ Interactive(d) /\ showConflictModal[d]
  /\ showConflictModal' = [showConflictModal EXCEPT ![d] = FALSE]
  /\ conflictData' = [conflictData EXCEPT ![d] = NoConflictData]
  /\ UNCHANGED <<engineVars, prefilledData, store, now, fleet, active, allFlights,
                 flights, loading, error, showModal, load, modal, pc, pending,
                 created, verdict, raced>>

\* The Dashboard with its timeline tab.
NextCalendar ==
  \/ Tick
  \/ \E d \in active : loadGetFlights(d)
  \/ \E d \in active : loadGetAllFlights(d)
  \/ \E d \in active : loadDataResolved(d)
  \/ \E d \in active : loadDataRejected(d)
  \/ \E d \in active : openModal(d)
  \/ \E d \in active : closeModal(d)
  \/ \E d \in active : \E formData \in FormInputs : handleSubmit(d, formData)
  \/ \E d \in active : createFlight(d)
  \/ \E d \in active : createFlightThrows(d)
  \/ \E d \in active : handleAddFlightResumes(d)
  \/ \E d \in active : \E slotInfo \in SlotInputs : handleSlotSelect(d, slotInfo)
  \/ \E d \in active : closeConflictModal(d)

\* One dispatcher, with the timeline tab, on a fleet of two aircraft.
SpecCalendar == InitSolo /\ [][NextCalendar]_vars

SpecSolo == InitSolo /\ [][Next]_vars

\* ---------------------------------------------------------------- engine claims
\* Flight e takes part in a conflict check for aircraft a (Null: any aircraft).
Participates(e, a) ==
  (a # Null => e.aircraft_id = a) /\ e.status = "scheduled"

\* The windows [aStart, aEnd) and [bStart, bEnd) share an instant.
SharesInstant(aStart, aEnd, bStart, bEnd) ==
  \E t \in Times : aStart <= t /\ t < aEnd /\ bStart <= t /\ t < bEnd

\* The stated test on the timestamps of the candidate and of flight e.
StatedTest(e) ==
  newFlight.departure_time < e.arrival_time /\ newFlight.arrival_time > e.departure_time

\* Flight e is an element of the returned list.
Returned(e) == \E k \in 1..Len(ret.list) : ret.list[k] = e

\* C1: checkFlightConflict returns true exactly when the list holds a flight
\* of the candidate's aircraft with status scheduled whose window satisfies
\* newStart < existingEnd and newEnd > existingStart; flights of another
\* aircraft or with another status never make it true.
C1_CheckFlightConflictContract ==
  ret.fn = "checkFlightConflict" =>
    (ret.bool <=>
       \E i \in 1..Len(existingFlights) :
         /\ existingFlights[i].aircraft_id = newFlight.aircraft_id
         /\ existingFlights[i].status = "scheduled"
         /\ StatedTest(existingFlights[i]))

\* The check returned true on a list that also holds an overlapping flight
\* that does not take part.
C1_Witness ==
  /\ ret.fn = "checkFlightConflict"
  /\ ret.bool
  /\ \E i \in 1..Len(existingFlights) :
       /\ ~Participates(existingFlights[i], newFlight.aircraft_id)
       /\ StatedTest(existingFlights[i])

\* C6: on well-formed windows the test of checkFlightConflict and the test of
\* findConflictingFlights are both true exactly when aStart < bEnd and
\* aEnd > bStart, which is exactly when the two half-open windows share an
\* instant.
C6_OverlapPredicate ==
  /\ \A i \in 1..Len(existingFlights) :
       StatedTest(existingFlights[i]) <=>
         SharesInstant(newFlight.departure_time, newFlight.arrival_time,
                       existingFlights[i].departure_time,
                       existingFlights[i].arrival_time)
  /\ ret.fn = "checkFlightConflict" =>
       (ret.bool <=>
          \E i \in 1..Len(existingFlights) :
            /\ Participates(existingFlights[i], newFlight.aircraft_id)
            /\ SharesInstant(newFlight.departure_time, newFlight.arrival_time,
                             existingFlights[i].departure_time,
                             existingFlights[i].arrival_time))
  /\ ret.fn = "findConflictingFlights" =>
       \A i \in 1..Len(existingFlights) :
         Participates(existingFlights[i], ret.aircraftId) =>
           (Returned(existingFlights[i]) <=>
              SharesInstant(newFlight.departure_time, newFlight.arrival_time,
                            existingFlights[i].departure_time,
                            existingFlights[i].arrival_time))

\* findConflictingFlights returned one of two participating flights: the one
\* that shares an instant with the candidate, and not the other.
C6_Witness ==
  /\ ret.fn = "findConflictingFlights"
  /\ Len(existingFlights) = 2
  /\ Len(ret.list) = 1
  /\ \A i \in 1..2 : Participates(existingFlights[i], ret.aircraftId)

\* Flight e and the candidate are back to back: one ends when the other starts.
BackToBack(e) ==
  e.arrival_time = newFlight.departure_time \/ e.departure_time = newFlight.arrival_time

\* C7: a scheduled flight of the same aircraft that only touches the
\* candidate at a boundary is no conflict: findConflictingFlights does not
\* return it, and checkFlightConflict returns false when every participating
\* flight is back to back with the candidate.
C7_BoundaryExclusivity ==
  /\ ret.fn = "checkFlightConflict" =>
       ((\A i \in 1..Len(existingFlights) :
           Participates(existingFlights[i], newFlight.aircraft_id) =>
             BackToBack(existingFlights[i]))
        => ~ret.bool)
  /\ ret.fn = "findConflictingFlights" =>
       \A i \in 1..Len(existingFlights) :
         BackToBack(existingFlights[i]) => ~Returned(existingFlights[i])

\* The check returned false with a scheduled flight of the candidate's
\* aircraft ending exactly when the candidate starts, and another starting
\* exactly when it ends.
C7_Witness ==
  /\ ret.fn = "checkFlightConflict"
  /\ ~ret.bool
  /\ \E i, j \in 1..Len(existingFlights) :
       /\ Participates(existingFlights[i], newFlight.aircraft_id)
       /\ Participates(existingFlights[j], newFlight.aircraft_id)
       /\ existingFlights[i].arrival_time = newFlight.departure_time
       /\ existingFlights[j].departure_time = newFlight.arrival_time

\* C8: for two scheduled flights A and B, checking candidate A against
\* existing B reports a conflict exactly when checking candidate B against
\* existing A does.
C8_Symmetry ==
  (ret.fn = "checkFlightConflictSwapped"
     /\ existingFlights[ret.index].status = "scheduled")
  => (ret.bool <=> checkFlightConflict(newFlight, <<existingFlights[ret.index]>>))

\* The exchanged check reported a conflict for a candidate that starts before
\* the scheduled flight it overlaps.
C8_Witness ==
  /\ ret.fn = "checkFlightConflictSwapped"
  /\ ret.bool
  /\ existingFlights[ret.index].status = "scheduled"
  /\ newFlight.departure_time < existingFlights[ret.index].departure_time

\* One of the candidate's and e's windows contains the other.
Contains(e) ==
  \/ e.departure_time <= newFlight.departure_time
       /\ newFlight.arrival_time <= e.arrival_time
  \/ newFlight.departure_time <= e.departure_time
       /\ e.arrival_time <= newFlight.arrival_time

\* C9: when the candidate's window contains, or is contained in, the window
\* of a scheduled flight of the same aircraft, checkFlightConflict returns
\* true.
C9_Containment ==
  (ret.fn = "checkFlightConflict"
     /\ \E i \in 1..Len(existingFlights) :
          /\ Participates(existingFlights[i], newFlight.aircraft_id)
          /\ Contains(existingFlights[i]))
  => ret.bool

\* The check ran on a candidate that strictly encompasses a scheduled flight
\* of its aircraft.
C9_Witness ==
  /\ ret.fn = "checkFlightConflict"
  /\ ret.bool
  /\ \E i \in 1..Len(existingFlights) :
       /\ Participates(existingFlights[i], newFlight.aircraft_id)
       /\ newFlight.departure_time < existingFlights[i].departure_time
       /\ existingFlights[i].arrival_time < newFlight.arrival_time

\* C10: every flight findConflictingFlights returns has status scheduled,
\* whatever the aircraftId argument (null included).
C10_StatusFiltering ==
  ret.fn = "findConflictingFlights" =>
    \A k \in 1..Len(ret.list) : ret.list[k].status = "scheduled"

\* findConflictingFlights was called with aircraftId null on a list holding a
\* cancelled flight that overlaps the window, and returned another flight.
C10_Witness ==
  /\ ret.fn = "findConflictingFlights"
  /\ ret.aircraftId = Null
  /\ ret.list # <<>>
  /\ \E i \in 1..Len(existingFlights) :
       /\ existingFlights[i].status = "cancelled"
       /\ StatedTest(existingFlights[i])

\* The candidate's window overlaps that of flight e, on the Dates.
Overlaps(e) ==
  /\ NewDate(newFlight.departure_time) < NewDate(e.arrival_time)
  /\ NewDate(newFlight.arrival_time) > NewDate(e.departure_time)

\* C11: when findConflictingFlights is called with a specific aircraftId,
\* every returned flight has that aircraft_id; an overlapping flight of
\* another aircraft is never returned.
C11_AircraftIsolation ==
  (ret.fn = "findConflictingFlights" /\ ret.aircraftId # Null) =>
    /\ \A k \in 1..Len(ret.list) : ret.list[k].aircraft_id = ret.aircraftId
    /\ \A i \in 1..Len(existingFlights) :
         existingFlights[i].aircraft_id # ret.aircraftId
           => ~Returned(existingFlights[i])

\* findConflictingFlights was called for one aircraft on a list that holds a
\* conflict of that aircraft and an overlapping scheduled flight of another.
C11_Witness ==
  /\ ret.fn = "findConflictingFlights"
  /\ ret.aircraftId # Null
  /\ ret.list # <<>>
  /\ \E i \in 1..Len(existingFlights) :
       /\ existingFlights[i].aircraft_id # ret.aircraftId
       /\ existingFlights[i].status = "scheduled"
       /\ Overlaps(existingFlights[i])

\* C12: with an aircraftId given, every flight of the list with that
\* aircraft_id, status scheduled and a window overlapping [startTime, endTime)
\* is in the result, and the result is the empty list exactly when the list
\* holds no such flight.
C12_Completeness ==
  (ret.fn = "findConflictingFlights" /\ ret.aircraftId # Null) =>
    LET qualifies(i) ==
          /\ existingFlights[i].aircraft_id = ret.aircraftId
          /\ existingFlights[i].status = "scheduled"
          /\ Overlaps(existingFlights[i])
    IN /\ \A i \in 1..Len(existingFlights) :
            qualifies(i) => Returned(existingFlights[i])
       /\ ret.list = <<>> <=> ~\E i \in 1..Len(existingFlights) : qualifies(i)

\* findConflictingFlights was called for one aircraft and returned two flights.
C12_Witness ==
  /\ ret.fn = "findConflictingFlights"
  /\ ret.aircraftId # Null
  /\ Len(ret.list) = 2

\* C13: checkFlightConflict(candidate, flights) is true exactly when
\* findConflictingFlights(candidate start, candidate end, candidate.aircraft_id,
\* flights) is a non-empty list.
C13_CheckAgreesWithConflictSet ==
  /\ ret.fn = "checkFlightConflict" =>
       (ret.bool <=>
          findConflictingFlights(NewDate(newFlight.departure_time),
                                 NewDate(newFlight.arrival_time),
                                 newFlight.aircraft_id, existingFlights) # <<>>)
  /\ (ret.fn = "findConflictingFlights" /\ ret.aircraftId = newFlight.aircraft_id) =>
       (ret.list # <<>> <=> checkFlightConflict(newFlight, existingFlights))

\* The check returned false on a list that holds an overlapping flight of
\* the candidate's aircraft that is not scheduled and an overlapping scheduled
\* flight of another aircraft.
C13_Witness ==
  /\ ret.fn = "checkFlightConflict"
  /\ ~ret.bool
  /\ \E i, j \in 1..Len(existingFlights) :
       /\ existingFlights[i].aircraft_id = newFlight.aircraft_id
       /\ existingFlights[i].status # "scheduled"
       /\ Overlaps(existingFlights[i])
       /\ existingFlights[j].aircraft_id # newFlight.aircraft_id
       /\ existingFlights[j].status = "scheduled"
       /\ Overlaps(existingFlights[j])

\* How many times flight e occurs in the returned list.
Occurrences(e) == Cardinality({k \in 1..Len(ret.list) : ret.list[k] = e})

\* C14: with aircraftId null, findConflictingFlights returns every scheduled
\* flight of the list, on any aircraft, whose window overlaps
\* [startTime, endTime), each exactly once and nothing else; the result is the
\* concatenation of the per-aircraft results over the distinct aircraft ids of
\* the list.
C14_AllAircraftNoDuplicates ==
  (ret.fn = "findConflictingFlights" /\ ret.aircraftId = Null) =>
    LET ids == {existingFlights[i].aircraft_id : i \in 1..Len(existingFlights)}
        perAircraft(a) ==
          findConflictingFlights(NewDate(newFlight.departure_time),
                                 NewDate(newFlight.arrival_time), a,
                                 existingFlights)
    IN /\ \A i \in 1..Len(existingFlights) :
            Occurrences(existingFlights[i]) =
              IF existingFlights[i].status = "scheduled"
                   /\ Overlaps(existingFlights[i])
              THEN 1 ELSE 0
       /\ \A k \in 1..Len(ret.list) :
            \E i \in 1..Len(existingFlights) : existingFlights[i] = ret.list[k]
       /\ \E order \in [1..Cardinality(ids) -> ids] :
            /\ \A m, n \in 1..Cardinality(ids) : m # n => order[m] # order[n]
            /\ ret.list =
                 IF Cardinality(ids) = 0 THEN <<>>
                 ELSE IF Cardinality(ids) = 1 THEN perAircraft(order[1])
                 ELSE perAircraft(order[1]) \o perAircraft(order[2])

\* findConflictingFlights was called with aircraftId null on two overlapping
\* scheduled flights of one aircraft and returned them.
C14_Witness ==
  /\ ret.fn = "findConflictingFlights"
  /\ ret.aircraftId = Null
  /\ Len(existingFlights) = 2
  /\ existingFlights[1].aircraft_id = existingFlights[2].aircraft_id
  /\ Len(ret.list) = 2

\* The place in the list of the first flight of aircraft a.
FirstOccurrence(a) ==
  CHOOSE i \in 1..Len(existingFlights) :
    /\ existingFlights[i].aircraft_id = a
    /\ \A j \in 1..(i - 1) : existingFlights[j].aircraft_id # a

\* C15: the result of findConflictingFlights is ordered: with an aircraftId
\* given it is a subsequence of the list (input order kept); with aircraftId
\* null it is grouped aircraft by aircraft, the groups in order of each
\* aircraft's first occurrence in the list, input order kept inside a group.
C15_ResultOrdering ==
  ret.fn = "findConflictingFlights" =>
    /\ \A k \in 1..Len(ret.list) :
         /\ ret.list[k].id \in 1..Len(existingFlights)
         /\ existingFlights[ret.list[k].id] = ret.list[k]
    /\ \A k, l \in 1..Len(ret.list) :
         k < l =>
           IF ret.aircraftId # Null \/ ret.list[k].aircraft_id = ret.list[l].aircraft_id
           THEN ret.list[k].id < ret.list[l].id
           ELSE FirstOccurrence(ret.list[k].aircraft_id)
                  < FirstOccurrence(ret.list[l].aircraft_id)

\* findConflictingFlights was called with aircraftId null on a list whose
\* flights alternate between two aircraft, and returned all three: the third
\* of the list before the second.
C15_Witness ==
  /\ ret.fn = "findConflictingFlights"
  /\ ret.aircraftId = Null
  /\ Len(existingFlights) = 3
  /\ existingFlights[1].aircraft_id # existingFlights[2].aircraft_id
  /\ existingFlights[1].aircraft_id = existingFlights[3].aircraft_id
  /\ Len(ret.list) = 3
  /\ ret.list[2] = existingFlights[3]

\* ---------------------------------------------------------------- availability claims
\* Flight e is a scheduled flight of the aircraft of the call that departs
\* strictly after now.
Upcoming(e) ==
  e.aircraft_id = ret.aircraftId /\ e.status = "scheduled" /\ e.departure_time > now

\* C18: getAircraftAvailability returns 'Available' exactly when the list
\* holds no flight of the aircraft with status scheduled and departure_time
\* strictly after now; flights that departed at or before now, flights of
\* other aircraft and flights that are not scheduled do not change the result.
C18_AvailableIffNoUpcoming ==
  ret.fn = "getAircraftAvailability" =>
    /\ ret.str = "Available" <=>
         ~\E i \in 1..Len(existingFlights) : Upcoming(existingFlights[i])
    /\ ret.str = getAircraftAvailability([id |-> ret.aircraftId],
                                         SelectSeq(existingFlights, Upcoming), now)

\* The call returned 'Available' for an aircraft that is in the air (its
\* scheduled flight departed at or before now and arrives later) while a
\* flight of another aircraft still lies ahead.
C18_Witness ==
  /\ ret.fn = "getAircraftAvailability"
  /\ ret.str = "Available"
  /\ \E i, j \in 1..Len(existingFlights) :
       /\ existingFlights[i].aircraft_id = ret.aircraftId
       /\ existingFlights[i].status = "scheduled"
       /\ existingFlights[i].departure_time <= now
       /\ existingFlights[i].arrival_time > now
       /\ existingFlights[j].aircraft_id # ret.aircraftId
       /\ existingFlights[j].status = "scheduled"
       /\ existingFlights[j].departure_time > now

\* C19: when the list holds at least one scheduled flight of the aircraft
\* departing after now, getAircraftAvailability returns 'Next: ' followed by
\* the formatted earliest departure_time among those flights, whatever the
\* order of the list.
C19_NextIsEarliestUpcoming ==
  (ret.fn = "getAircraftAvailability"
     /\ \E i \in 1..Len(existingFlights) : Upcoming(existingFlights[i]))
  => \E i \in 1..Len(existingFlights) :
       /\ Upcoming(existingFlights[i])
       /\ \A j \in 1..Len(existingFlights) :
            Upcoming(existingFlights[j])
              => existingFlights[i].departure_time <= existingFlights[j].departure_time
       /\ ret.str = "Next: " \o formatDateTime(existingFlights[i].departure_time)

\* The call reported the second flight of the list, which departs before the
\* first.
C19_Witness ==
  /\ ret.fn = "getAircraftAvailability"
  /\ Len(existingFlights) = 2
  /\ Upcoming(existingFlights[1]) /\ Upcoming(existingFlights[2])
  /\ existingFlights[2].departure_time < existingFlights[1].departure_time
  /\ ret.str = "Next: " \o formatDateTime(existingFlights[2].departure_time)

\* ---------------------------------------------------------------- pilot claims
\* Row i of the table is a scheduled flight, other than the excluded one, that
\* has the pilot of the call as captain or first officer.
CountsAgainstPilot(i) ==
  /\ store[i].status = "scheduled"
  /\ store[i].captain_id = ret.pilotId \/ store[i].first_officer_id = ret.pilotId
  /\ store[i].id # ret.excludeFlightId

\* Row i overlaps the requested window under the overlap predicate.
OverlapsRequest(i) ==
  /\ store[i].departure_time < newFlight.arrival_time
  /\ store[i].arrival_time > newFlight.departure_time

\* C16: isPilotAvailable returns true exactly when no scheduled flight, other
\* than the excluded one, has the pilot as captain or first officer and a
\* window that overlaps the requested window (flight.departure_time <
\* arrivalTime and flight.arrival_time > departureTime).
C16_ExclusionAwareAvailability ==
  ret.fn = "isPilotAvailable" =>
    (ret.bool <=>
       ~\E i \in 1..Len(store) : CountsAgainstPilot(i) /\ OverlapsRequest(i))

\* C17: isPilotAvailable called with excludeFlightId set to a flight returns
\* true whenever that flight is the only scheduled flight of the pilot that
\* overlaps the requested window, whatever other scheduled flights that do
\* not overlap it the pilot has.
C17_ExclusionIdempotence ==
  (/\ ret.fn = "isPilotAvailable"
   /\ \E i \in 1..Len(store) :
        /\ store[i].id = ret.excludeFlightId
        /\ store[i].status = "scheduled"
        /\ store[i].captain_id = ret.pilotId \/ store[i].first_officer_id = ret.pilotId
        /\ OverlapsRequest(i)
   /\ \A i \in 1..Len(store) : CountsAgainstPilot(i) => ~OverlapsRequest(i))
  => ret.bool

\* ---------------------------------------------------------------- booking claims
\* Rows i and j of the table are scheduled flights of one aircraft whose
\* windows overlap.
OverlappingRows(i, j) ==
  /\ store[i].status = "scheduled" /\ store[j].status = "scheduled"
  /\ store[i].aircraft_id = store[j].aircraft_id
  /\ store[i].departure_time < store[j].arrival_time
  /\ store[i].arrival_time > store[j].departure_time

C3_NeverCommitsKnownConflict ==
  \A d \in active :
    /\ pc[d] \in {"createFlight", "created"} =>
         /\ verdict[d] = "passed"
         /\ ~checkFlightConflict(pending[d], allFlights[d])
    /\ verdict[d] = "conflict" =>
         /\ pc[d] = "idle"
         /\ modal[d] = [loading |-> FALSE, error |-> ConflictMessage]
         /\ showModal[d]

\* A submission was rejected for a conflict with a scheduled flight of the
\* snapshot.
C3_Witness ==
  \E d \in active :
    /\ verdict[d] = "conflict"
    /\ \E k \in 1..Len(allFlights[d]) : allFlights[d][k].status = "scheduled"

\* C4: the check of handleAddFlight does not protect the insert: once a
\* dispatcher's check has passed, createFlight adds the row as a scheduled
\* flight whatever the table holds by then, so two dispatchers can commit
\* overlapping flights of one aircraft.
C4_CheckAloneDoesNotPreventRace ==
  \A d \in active :
    pc[d] = "created" =>
      /\ created[d].id \in 1..Len(store)
      /\ store[created[d].id] = created[d]
      /\ created[d].status = "scheduled"
      /\ created[d].aircraft_id = pending[d].aircraft_id
      /\ created[d].departure_time = pending[d].departure_time
      /\ created[d].arrival_time = pending[d].arrival_time

\* Both dispatchers' checks passed and the table holds two overlapping
\* scheduled flights of one aircraft.
C4_Witness ==
  /\ \A d \in Dispatchers : verdict[d] = "passed"
  /\ Len(store) = 2
  /\ OverlappingRows(1, 2)
  /\ pc["d1"] = "created" /\ pc["d2"] = "created"

\* C5: every insert made by handleAddFlight was preceded by a conflict check
\* that passed on the flights stored immediately before the insert.
C5_RecheckBeforeInsert ==
  \A d \in active : ~raced[d]

\* C20: when handleAddFlight finds a conflict at submit time, the conflicting
\* flights are put up for display: the step that rejects the candidate opens
\* the dashboard's conflict dialog and puts in conflictData the list
\* findConflictingFlights computes for the rejected candidate on the snapshot.
C20_ConflictSetSurfaced ==
  [][\A d \in active :
       (verdict[d] # "conflict" /\ verdict'[d] = "conflict") =>
         /\ showConflictModal'[d]
         /\ \E formData \in FormInputs :
              /\ formData.aircraft_id # ""
              /\ checkFlightConflict(formData, allFlights[d])
              /\ conflictData'[d].conflicts =
                   findConflictingFlights(NewDate(formData.departure_time),
                                          NewDate(formData.arrival_time),
                                          formData.aircraft_id, allFlights[d])]_vars

\* ---------------------------------------------------------------- calendar claims
\* The step opens the conflict dialog of d.
OpensConflictDialog(d) == ~showConflictModal[d] /\ showConflictModal'[d]

\* The step opens the create form of d from a calendar slot.
OpensPrefilledForm(d) ==
  ~showModal[d] /\ showModal'[d] /\ prefilledData'[d] # NoPrefilledData

\* C21: a slot selection opens exactly one of the two dialogs: the conflict
\* dialog, with conflictData holding the flights findConflictingFlights
\* returned for the slot on allFlights, exactly when that list is non-empty,
\* and otherwise the create form prefilled with the slot's times and aircraft;
\* never both, and never the create form for a slot with conflicts.
C21_SlotOpensExactlyOneDialog ==
  [][\A d \in active :
       /\ ~(showModal'[d] /\ showConflictModal'[d])
       /\ OpensConflictDialog(d) =>
            \E slotInfo \in SlotInputs :
              /\ conflictData'[d].selectedTime =
                   [start |-> slotInfo.start, end |-> slotInfo.end]
              /\ conflictData'[d].selectedAircraft =
                   IF slotInfo.resourceId # Null
                   THEN tail_number(slotInfo.resourceId) ELSE Null
              /\ conflictData'[d].conflicts =
                   findConflictingFlights(slotInfo.start, slotInfo.end,
                                          slotInfo.resourceId, allFlights[d])
              /\ conflictData'[d].conflicts # <<>>
              /\ UNCHANGED <<showModal, prefilledData>>
       /\ OpensPrefilledForm(d) =>
            /\ findConflictingFlights(
                 NewDate(prefilledData'[d].departure_time),
                 NewDate(prefilledData'[d].arrival_time),
                 IF prefilledData'[d].aircraft_id = "" THEN Null
                 ELSE prefilledData'[d].aircraft_id,
                 allFlights[d]) = <<>>
            /\ prefilledData'[d].departure_time < prefilledData'[d].arrival_time
            /\ UNCHANGED <<showConflictModal, conflictData>>]_vars

\* The conflict dialog is open on a slot of an aircraft lane, showing one
\* flight, and the create form is closed.
C21_Witness ==
  /\ showConflictModal["d1"]
  /\ ~showModal["d1"]
  /\ Len(conflictData["d1"].conflicts) = 1
  /\ conflictData["d1"].selectedAircraft # Null

\* Row k of d's snapshot is a scheduled flight that overlaps [start, end).
SnapshotOverlap(d, k, start, end) ==
  /\ allFlights[d][k].status = "scheduled"
  /\ start < NewDate(allFlights[d][k].arrival_time)
  /\ end > NewDate(allFlights[d][k].departure_time)

\* C26: for a slot with no aircraft lane, one scheduled flight of any aircraft
\* overlapping the slot is enough: the create form opens only when no
\* scheduled flight of the snapshot overlaps the slot, and the conflict dialog
\* shows every one that does, even when another aircraft is free.
C26_NoLaneChecksAllAircraft ==
  [][\A d \in active :
       /\ (OpensPrefilledForm(d) /\ prefilledData'[d].aircraft_id = "") =>
            ~\E k \in 1..Len(allFlights[d]) :
               SnapshotOverlap(d, k, NewDate(prefilledData'[d].departure_time),
                               NewDate(prefilledData'[d].arrival_time))
       /\ (OpensConflictDialog(d) /\ conflictData'[d].selectedAircraft = Null) =>
            /\ ~showModal'[d]
            /\ \A k \in 1..Len(allFlights[d]) :
                 SnapshotOverlap(d, k, conflictData'[d].selectedTime.start,
                                 conflictData'[d].selectedTime.end)
                   <=> \E m \in 1..Len(conflictData'[d].conflicts) :
                         conflictData'[d].conflicts[m] = allFlights[d][k]]_vars

\* The conflict dialog is open on a slot with no aircraft lane while an
\* aircraft of the fleet has no flight at all in the snapshot.
C26_Witness ==
  /\ showConflictModal["d1"]
  /\ ~showModal["d1"]
  /\ conflictData["d1"].selectedAircraft = Null
  /\ \E a \in fleet :
       \A k \in 1..Len(allFlights["d1"]) : allFlights["d1"][k].aircraft_id # a

C27_CreatedFlightsAreScheduled ==
  [][\A d \in active :
       (pc[d] = "createFlight" /\ pc'[d] = "created") =>
         /\ Len(store') = Len(store) + 1
         /\ store'[Len(store')].status = "scheduled"
         /\ store'[Len(store')].aircraft_id = pending[d].aircraft_id
         /\ store'[Len(store')].departure_time = pending[d].departure_time
         /\ store'[Len(store')].arrival_time = pending[d].arrival_time
         /\ created'[d] = store'[Len(store')]
         /\ checkFlightConflict(pending[d], <<store'[Len(store')]>>)
         /\ \A k \in 1..Len(store) : store'[k] = store[k]]_vars

\* createFlight has just inserted a scheduled row after a cancelled one.
C27_Witness ==
  /\ pc["d1"] = "created"
  /\ Len(store) = 2
  /\ store[1].status = "cancelled"
  /\ store[2].status = "scheduled"
  /\ created["d1"] = store[2]

\* The flight row is in d's allFlights after the step.
InSnapshotAfter(d, row) ==
  \E m \in 1..Len(allFlights'[d]) : allFlights'[d][m] = row

checkFlightConflicts(flight_id, table) ==
  IF flight_id \notin 1..Len(table)
  THEN [conflicts |-> <<>>, error |-> "Flight not found"]
  ELSE
    LET flight == table[flight_id]
        onAircraft(row) ==
          /\ row.aircraft_id = flight.aircraft_id
          /\ row.id # flight_id
          /\ row.status # "cancelled"
          /\ \/ row.departure_time <= flight.arrival_time
             \/ row.arrival_time >= flight.departure_time
        aircraftConflicts == SelectSeq(table, onAircraft)
        ofCaptain(row) ==
          /\ row.captain_id = flight.captain_id
          /\ row.departure_time >= flight.departure_time - 24
          /\ row.departure_time <= flight.departure_time
          /\ row.status # "cancelled"
        pilotFlights == SelectSeq(table, ofCaptain)
        aircraftPart ==
          IF flight.aircraft_id # "" /\ Len(aircraftConflicts) > 0
          THEN <<[type |-> "aircraft_conflict",
                  message |-> "Aircraft " \o tail_number(flight.aircraft_id)
                                \o " has " \o ToString(Len(aircraftConflicts))
                                \o " overlapping flight(s)",
                  details |-> aircraftConflicts]>>
          ELSE <<>>
        pilotPart ==
          IF flight.captain_id # Null /\ Len(pilotFlights) >= 3
          THEN <<[type |-> "duty_time_conflict",
                  message |-> "Captain may exceed duty time limits - "
                                \o ToString(Len(pilotFlights))
                                \o " flights in 24 hours",
                  details |-> pilotFlights]>>
          ELSE <<>>
    IN [conflicts |-> aircraftPart \o pilotPart, error |-> ""]

\* Rows of the flights table as the assistant reads them: any aircraft and
\* status, a captain or none, a well-formed window.
AssistantFlightInputs ==
  {[id |-> 0, aircraft_id |-> a, captain_id |-> cap, first_officer_id |-> Null,
    departure_time |-> w[1], arrival_time |-> w[2], status |-> st] :
     a \in Aircraft, cap \in {"p1", Null}, st \in Statuses,
     w \in {v \in (0..MaxHour) \X (0..MaxHour) : v[1] < v[2]}}

\* The tables of n such rows, with ids 1..n.
AssistantTables(n) ==
  {[i \in 1..n |-> [l[i] EXCEPT !.id = i]] : l \in [1..n -> AssistantFlightInputs]}

InitAssistant ==
  /\ existingFlights = <<>>
  /\ newFlight = NoNewFlight
  /\ ret = NoRet
  /\ \E n \in 0..MaxFlights : store \in AssistantTables(n)
  /\ now = 0
  /\ NoDashboard

\* checkFlightConflicts(flight_id) returns from its try block.
CallCheckFlightConflicts(flight_id) ==
  /\ ret.fn = "none"
  /\ LET result == checkFlightConflicts(flight_id, store)
     IN ret' = [NoRet EXCEPT !.fn = "checkFlightConflicts", !.index = flight_id,
                             !.list = result.conflicts, !.str = result.error]
  /\ UNCHANGED <<existingFlights, newFlight, bookingVars>>

\* checkFlightConflicts when a query throws: the catch block's result.
CallCheckFlightConflictsThrows(flight_id) ==
  /\ ret.fn = "none"
  /\ ret' = [NoRet EXCEPT !.fn = "checkFlightConflicts", !.index = flight_id,
                          !.str = "Error checking conflicts"]
  /\ UNCHANGED <<existingFlights, newFlight, bookingVars>>

NextAssistant ==
  \/ \E flight_id \in 1..(MaxFlights + 1) : CallCheckFlightConflicts(flight_id)
  \/ \E flight_id \in 1..(MaxFlights + 1) : CallCheckFlightConflictsThrows(flight_id)

SpecAssistant == InitAssistant /\ [][NextAssistant]_vars

\* ---------------------------------------------------------------- update claims
\* Row i of the table after the step has another window than before it.
WindowChanged(i) ==
  \/ store'[i].departure_time # store[i].departure_time
  \/ store'[i].arrival_time # store[i].arrival_time

\* Flights i and j of the table after the step share the aircraft or a crew
\* member.
SharesResource(i, j) ==
  \/ store'[i].aircraft_id = store'[j].aircraft_id
  \/ \E p \in Pilots :
       /\ p \in {store'[i].captain_id, store'[i].first_officer_id}
       /\ p \in {store'[j].captain_id, store'[j].first_officer_id}

\* C22: a change of an existing flight's window by updateFlightTimes or
\* updateFlight is checked first against the other flights, the edited flight
\* excluded, so no update is written whose new window overlaps another
\* scheduled flight of the same aircraft or crew member.
C22_UpdateCheckedBeforeWrite ==
  [][\A i \in 1..Len(store) :
       WindowChanged(i) =>
         \A j \in 1..Len(store) :
           (j # i /\ store'[j].status = "scheduled" /\ SharesResource(i, j)) =>
             ~(/\ store'[j].departure_time < store'[i].arrival_time
               /\ store'[j].arrival_time > store'[i].departure_time)]_vars

\* C23: every flight record of the store has departure_time < arrival_time,
\* whatever sequence of operations has run.
C23_WindowsWellFormed ==
  \A i \in 1..Len(store) : store[i].departure_time < store[i].arrival_time

OverlapsFlight(i, j) ==
  /\ j # i
  /\ store[j].aircraft_id = store[i].aircraft_id
  /\ store[j].status = "scheduled"
  /\ store[j].departure_time < store[i].arrival_time
  /\ store[j].arrival_time > store[i].departure_time

\* C25: for a flight F of the table the assistant's checkFlightConflicts
\* reports an aircraft_conflict exactly when some other scheduled flight on
\* F's aircraft overlaps F under the half-open test of checkFlightConflict; a
\* flight that touches F at a boundary, or does not overlap it, is not
\* reported.
C25_AssistantUsesOverlapPredicate ==
  (ret.fn = "checkFlightConflicts" /\ ret.str = "") =>
    ((\E k \in 1..Len(ret.list) : ret.list[k].type = "aircraft_conflict")
       <=> \E j \in 1..Len(store) : OverlapsFlight(ret.index, j))

====
